---------------------------- MODULE Spec2Model ----------------------------
(***************************************************************************)
(* rslts: the Result<T, E> discriminated union and its two constructors    *)
(* ok and err (src/src/index.ts), together with the functions the          *)
(* repository's test file builds on them: divide, complexOperation, the    *)
(* async fetchUserData and the CustomError class (src/unnamed/part_000).   *)
(*                                                                         *)
(* The program is modelled at the level of the JavaScript it compiles to:  *)
(* a heap of objects with identity (an address is an index of `heap`),     *)
(* values that are primitives or references, and functions that return a   *)
(* completion (normal or throw).  Every function below takes the heap it   *)
(* runs on and returns the heap it leaves and its completion.              *)
(***************************************************************************)
EXTENDS Integers, Sequences, FiniteSets, TLC

VARIABLES
    heap,        \* the objects allocated so far; address a is heap[a]
    calls,       \* top-level calls made so far: [fn, args, completion]
    microtasks,  \* promises whose `await` continuation is queued
    awaited      \* what each resumed `await` delivered: [promise, completion]

vars == <<heap, calls, microtasks, awaited>>

\* Objects a run of the library specification may allocate.
MaxHeap == 4
\* Top-level calls a run of the usage specification may make.
MaxCalls == 2

---------------------------------------------------------------------------
(* JavaScript values.  Every value is a record of one shape so that any two *)
(* values can be compared: t is the typeof tag; a number is the fraction    *)
(* n/d in lowest terms with d > 0, NaN is 0/0, +Infinity 1/0, -Infinity     *)
(* -1/0, and s = "-" marks negative zero; a string keeps its text in s; an  *)
(* object reference keeps its address in n.                                 *)

Val(t, n, d, s) == [t |-> t, n |-> n, d |-> d, s |-> s]

Num(n) == Val("number", n, 1, "")
NegZero == Val("number", 0, 1, "-")
NaN == Val("number", 0, 0, "")
Infinity == Val("number", 1, 0, "")
NegInfinity == Val("number", -1, 0, "")
Str(s) == Val("string", 0, 1, s)
True == Val("boolean", 1, 1, "")
False == Val("boolean", 0, 1, "")
Null == Val("null", 0, 1, "")
Undefined == Val("undefined", 0, 1, "")
Ref(a) == Val("object", a, 1, "")

IsRef(v) == v.t = "object"
IsNaN(v) == v.t = "number" /\ v.n = 0 /\ v.d = 0
IsNegative(v) == v.n < 0 \/ v.s = "-"

Abs(x) == IF x < 0 THEN -x ELSE x

RECURSIVE GCD(_, _)
GCD(a, b) == IF b = 0 THEN a ELSE GCD(b, a % b)

\* The number n/d (d > 0) in lowest terms.
Frac(n, d) ==
    LET g == GCD(Abs(n), d)
    IN  Val("number", n \div g, d \div g, "")

SignedZero(neg) == IF neg THEN NegZero ELSE Num(0)
SignedInfinity(neg) == IF neg THEN NegInfinity ELSE Infinity

\* a === b
StrictEquals(a, b) ==
    IF a.t # b.t THEN FALSE
    ELSE IF a.t = "number"
         THEN ~IsNaN(a) /\ ~IsNaN(b) /\ a.n = b.n /\ a.d = b.d
         ELSE a = b

\* ToBoolean(v): what `!v` and `if (v)` test
Truthy(v) ==
    IF v.t = "boolean" THEN v.n = 1
    ELSE IF v.t = "number" THEN v.n # 0
    ELSE IF v.t = "string" THEN v.s # ""
    ELSE v.t = "object"

\* a <= b on numbers
LessEq(a, b) ==
    IF IsNaN(a) \/ IsNaN(b) THEN FALSE
    ELSE IF a.d = 0 /\ b.d = 0 THEN a.n <= b.n
    ELSE IF a.d = 0 THEN a.n < 0
    ELSE IF b.d = 0 THEN b.n > 0
    ELSE a.n * b.d <= b.n * a.d

\* a / b on numbers (IEEE 754 special cases; a finite quotient is kept exact,
\* which is what the hardware gives for the quotients the model draws, all
\* of them dyadic).
Quotient(a, b) ==
    LET neg == IsNegative(a) # IsNegative(b)
    IN  IF IsNaN(a) \/ IsNaN(b) THEN NaN
        ELSE IF a.d = 0 /\ b.d = 0 THEN NaN
        ELSE IF a.n = 0 /\ b.n = 0 THEN NaN
        ELSE IF b.n = 0 THEN SignedInfinity(neg)
        ELSE IF a.d = 0 THEN SignedInfinity(neg)
        ELSE IF b.d = 0 THEN SignedZero(neg)
        ELSE IF a.n = 0 THEN SignedZero(neg)
        ELSE IF b.n < 0 THEN Frac(-(a.n * b.d), a.d * (-b.n))
        ELSE Frac(a.n * b.d, a.d * b.n)

\* a * b on numbers
Product(a, b) ==
    LET neg == IsNegative(a) # IsNegative(b)
        zeroA == a.n = 0 /\ a.d # 0
        zeroB == b.n = 0 /\ b.d # 0
    IN  IF IsNaN(a) \/ IsNaN(b) THEN NaN
        ELSE IF (a.d = 0 /\ zeroB) \/ (b.d = 0 /\ zeroA) THEN NaN
        ELSE IF a.d = 0 \/ b.d = 0 THEN SignedInfinity(neg)
        ELSE IF zeroA \/ zeroB THEN SignedZero(neg)
        ELSE Frac(a.n * b.n, a.d * b.d)

---------------------------------------------------------------------------
(* Objects and completions.                                                 *)

\* An object: its prototype's name and its own properties.
Obj(proto, props) == [proto |-> proto, props |-> props]

HasProp(o, p) == p \in DOMAIN o.props
\* o.p: the own property, undefined when there is none.
GetProp(o, p) == IF HasProp(o, p) THEN o.props[p] ELSE Undefined

\* x instanceof Error
InstanceOfError(h, v) ==
    IsRef(v) /\ h[v.n].proto \in {"Error", "CustomError"}

Normal(v) == [type |-> "normal", value |-> v]
Throw(v) == [type |-> "throw", value |-> v]
\* What a function leaves: the heap and its completion.
Outcome(h, c) == [heap |-> h, completion |-> c]

\* new Error(message)
NewError(h, message) ==
    Outcome(Append(h, Obj("Error", [message |-> Str(message)])),
            Normal(Ref(Len(h) + 1)))

\* new Error(message, { cause })
NewErrorWithCause(h, message, cause) ==
    Outcome(Append(h, Obj("Error", [message |-> Str(message), cause |-> cause])),
            Normal(Ref(Len(h) + 1)))

\* class CustomError extends Error: super(message); this.name = "CustomError"
CustomError(h, message) ==
    Outcome(Append(h, Obj("CustomError",
                          [message |-> Str(message), name |-> Str("CustomError")])),
            Normal(Ref(Len(h) + 1)))

\* The object literal { name: "Test" }
TestObject(h) ==
    Outcome(Append(h, Obj("Object", [name |-> Str("Test")])),
            Normal(Ref(Len(h) + 1)))

---------------------------------------------------------------------------
(* The library: src/src/index.ts.                                           *)

(* Faulty variants of the constructors: each is the constructor with one     *)
(* plausible slip, kept to show that the properties below tell them apart.  *)

\* ok that stores a shallow copy of an object payload.
ok_CopiesPayload(h, value) ==
    IF IsRef(value)
    THEN LET h1 == Append(h, h[value.n])
         IN  Outcome(Append(h1, Obj("Object", [success |-> True,
                                               value |-> Ref(Len(h1))])),
                     Normal(Ref(Len(h1) + 1)))
    ELSE Outcome(Append(h, Obj("Object", [success |-> True, value |-> value])),
                 Normal(Ref(Len(h) + 1)))

\* ok that recycles the most recently built Result instead of building one.
ok_ReusesObject(h, value) ==
    IF h # <<>> /\ HasProp(h[Len(h)], "success")
    THEN Outcome([h EXCEPT ![Len(h)] = Obj("Object", [success |-> True,
                                                      value |-> value])],
                 Normal(Ref(Len(h))))
    ELSE Outcome(Append(h, Obj("Object", [success |-> True, value |-> value])),
                 Normal(Ref(Len(h) + 1)))

\* ok that rejects null and undefined with a TypeError.
ok_Validates(h, value) ==
    IF value \in {Null, Undefined}
    THEN Outcome(Append(h, Obj("TypeError", [message |-> Str("value is required")])),
                 Throw(Ref(Len(h) + 1)))
    ELSE Outcome(Append(h, Obj("Object", [success |-> True, value |-> value])),
                 Normal(Ref(Len(h) + 1)))

\* ok that returns a payload which is already a Result as it is.
ok_Flattens(h, value) ==
    IF IsRef(value) /\ HasProp(h[value.n], "success")
    THEN Outcome(h, Normal(value))
    ELSE Outcome(Append(h, Obj("Object", [success |-> True, value |-> value])),
                 Normal(Ref(Len(h) + 1)))

\* err that stores new Error(error.message) in place of an error object.
err_RewrapsError(h, error) ==
    IF InstanceOfError(h, error)
    THEN LET h1 == Append(h, Obj("Error",
                                 [message |-> GetProp(h[error.n], "message")]))
         IN  Outcome(Append(h1, Obj("Object", [success |-> False,
                                               error |-> Ref(Len(h1))])),
                     Normal(Ref(Len(h1) + 1)))
    ELSE Outcome(Append(h, Obj("Object", [success |-> False, error |-> error])),
                 Normal(Ref(Len(h) + 1)))

\* err that also writes an (undefined) value field.
err_BothFields(h, error) ==
    Outcome(Append(h, Obj("Object", [success |-> False, error |-> error,
                                     value |-> Undefined])),
            Normal(Ref(Len(h) + 1)))

\* function ok<T>(value: T): Result<T> { return { success: true, value }; }
ok(h, value) ==
    Outcome(Append(h, Obj("Object", [success |-> True, value |-> value])),
            Normal(Ref(Len(h) + 1)))

\* function err<E>(error: E): Result<any, E> { return { success: false, error }; }
err(h, error) ==
    Outcome(Append(h, Obj("Object", [success |-> False, error |-> error])),
            Normal(Ref(Len(h) + 1)))

---------------------------------------------------------------------------
(* The functions of the test file: src/unnamed/part_000.                    *)

\* divide without the test for a zero divisor.
divide_NoZeroCheck(h, a, b) ==
    ok(h, Quotient(a, b))

\* function divide(a, b): Result<number>
divide(h, a, b) ==
    IF StrictEquals(b, Num(0))
    THEN LET e == NewError(h, "Division by zero")
         IN  err(e.heap, e.completion.value)
    ELSE ok(h, Quotient(a, b))

\* complexOperation that hands the failure of divide on as it is.
complexOperation_PassesThrough(h, input) ==
    LET divideResult == divide(h, Num(10), input)
        r == divideResult.heap[divideResult.completion.value.n]
    IN  IF ~ Truthy(GetProp(r, "success"))
        THEN divideResult
        ELSE ok(divideResult.heap, Product(GetProp(r, "value"), Num(2)))

\* function complexOperation(input): Result<number, Error>
complexOperation(h, input) ==
    LET divideResult == divide(h, Num(10), input)
        r == divideResult.heap[divideResult.completion.value.n]
    IN  IF ~ Truthy(GetProp(r, "success"))
        THEN LET e == NewErrorWithCause(divideResult.heap,
                                        "Complex operation failed",
                                        GetProp(r, "error"))
             IN  err(e.heap, e.completion.value)
        ELSE ok(divideResult.heap, Product(GetProp(r, "value"), Num(2)))

\* The try block of fetchUserData.
FetchTry(h, userId) ==
    LET mockData == IF StrictEquals(userId, Num(1)) THEN Str("User Data") ELSE Null
    IN  IF StrictEquals(mockData, Null)
        THEN LET e == NewError(h, "User not found")
             IN  err(e.heap, e.completion.value)
        ELSE ok(h, mockData)

\* The catch block of fetchUserData, entered with the thrown value.
FetchCatch(h, error) ==
    IF InstanceOfError(h, error)
    THEN err(h, error)
    ELSE LET e == NewError(h, "Unknown error")
         IN  err(e.heap, e.completion.value)

\* A body of fetchUserData that throws on an invalid id instead of returning
\* the failure.
FetchBody_Throws(h, userId) ==
    IF LessEq(userId, Num(0))
    THEN LET e == NewError(h, "Invalid user ID")
         IN  Outcome(e.heap, Throw(e.completion.value))
    ELSE LET t == FetchTry(h, userId)
         IN  IF t.completion.type = "throw"
             THEN FetchCatch(t.heap, t.completion.value)
             ELSE t

\* The body of fetchUserData, run synchronously by the call (it holds no await).
FetchBody(h, userId) ==
    IF LessEq(userId, Num(0))
    THEN LET e == NewError(h, "Invalid user ID")
         IN  err(e.heap, e.completion.value)
    ELSE LET t == FetchTry(h, userId)
         IN  IF t.completion.type = "throw"
             THEN FetchCatch(t.heap, t.completion.value)
             ELSE t

\* async function fetchUserData(userId): Promise<Result<string>>.  The promise
\* the call returns is fulfilled with the body's return value, rejected with
\* what the body throws.
fetchUserData(h, userId) ==
    LET b == FetchBody(h, userId)
        promise == Obj("Promise",
                       [state |-> IF b.completion.type = "normal"
                                  THEN Str("fulfilled") ELSE Str("rejected"),
                        result |-> b.completion.value])
    IN  Outcome(Append(b.heap, promise), Normal(Ref(Len(b.heap) + 1)))

---------------------------------------------------------------------------
(* The state machine.                                                       *)

Call(fn, args, completion) == [fn |-> fn, args |-> args, completion |-> completion]

Init ==
    /\ heap = <<>>
    /\ calls = <<>>
    /\ microtasks = <<>>
    /\ awaited = <<>>

\* The primitive payloads a caller passes to ok and err.
Primitives == {Num(42), Str("hello"), Null, Undefined}
\* Any payload: a primitive or a reference to an object that exists.
Payloads == Primitives \cup {Ref(a) : a \in DOMAIN heap}

\* The caller allocates a payload object: new Error("Test error"),
\* new CustomError("Custom test error") or { name: "Test" }.
Allocate(o) ==
    /\ Len(heap) < MaxHeap
    /\ heap' = o.heap
    /\ UNCHANGED <<calls, microtasks, awaited>>

CallOk(value) ==
    /\ Len(heap) < MaxHeap
    /\ LET r == ok(heap, value)
       IN  /\ heap' = r.heap
           /\ calls' = Append(calls, Call("ok", <<value>>, r.completion))
    /\ UNCHANGED <<microtasks, awaited>>

CallErr(error) ==
    /\ Len(heap) < MaxHeap
    /\ LET r == err(heap, error)
       IN  /\ heap' = r.heap
           /\ calls' = Append(calls, Call("err", <<error>>, r.completion))
    /\ UNCHANGED <<microtasks, awaited>>

Next ==
    \/ Allocate(NewError(heap, "Test error"))
    \/ Allocate(CustomError(heap, "Custom test error"))
    \/ Allocate(TestObject(heap))
    \/ \E value \in Payloads : CallOk(value)
    \/ \E error \in Payloads : CallErr(error)

Spec == Init /\ [][Next]_vars

---------------------------------------------------------------------------
(* The usage specification: the test file's functions, called in sequence.  *)
(* The test runner runs one test at a time and a test suspended at an       *)
(* `await` makes no further call until it is resumed, so a call is made     *)
(* only when no continuation is queued.                                     *)

\* The arguments the calls are drawn from.  Every finite quotient of a
\* Dividend by a Divisor is dyadic.
Dividends == {Num(10), Num(7), Num(0), NaN}
Divisors == {Num(0), NegZero, Num(2), Num(4), Num(-2), NaN, Infinity}
Half == Val("number", 1, 2, "")
UserIds == {Num(-2), Num(0), NegZero, Num(1), Num(2), Half, NaN, Infinity}

CallDivide(a, b) ==
    /\ Len(calls) < MaxCalls
    /\ microtasks = <<>>
    /\ LET r == divide(heap, a, b)
       IN  /\ heap' = r.heap
           /\ calls' = Append(calls, Call("divide", <<a, b>>, r.completion))
    /\ UNCHANGED <<microtasks, awaited>>

CallComplexOperation(input) ==
    /\ Len(calls) < MaxCalls
    /\ microtasks = <<>>
    /\ LET r == complexOperation(heap, input)
       IN  /\ heap' = r.heap
           /\ calls' = Append(calls, Call("complexOperation", <<input>>, r.completion))
    /\ UNCHANGED <<microtasks, awaited>>

\* await fetchUserData(userId): the call returns the promise and the caller
\* suspends on it; its continuation is queued as a microtask.
CallFetchUserData(userId) ==
    /\ Len(calls) < MaxCalls
    /\ microtasks = <<>>
    /\ LET r == fetchUserData(heap, userId)
       IN  /\ heap' = r.heap
           /\ calls' = Append(calls, Call("fetchUserData", <<userId>>, r.completion))
           /\ microtasks' = Append(microtasks, r.completion.value)
    /\ UNCHANGED awaited

\* The continuation of an `await` runs: the await expression yields the
\* promise's result when it is fulfilled and throws it when it is rejected.
AwaitResume ==
    /\ microtasks # <<>>
    /\ LET p == Head(microtasks)
           promise == heap[p.n]
       IN  awaited' = Append(awaited,
                [promise |-> p,
                 completion |-> IF GetProp(promise, "state") = Str("fulfilled")
                                THEN Normal(GetProp(promise, "result"))
                                ELSE Throw(GetProp(promise, "result"))])
    /\ microtasks' = Tail(microtasks)
    /\ UNCHANGED <<heap, calls>>

NextUsage ==
    \/ \E a \in Dividends, b \in Divisors : CallDivide(a, b)
    \/ \E input \in Divisors : CallComplexOperation(input)
    \/ \E userId \in UserIds : CallFetchUserData(userId)
    \/ AwaitResume

SpecUsage == Init /\ [][NextUsage]_vars

---------------------------------------------------------------------------
(* Vocabulary of the properties.                                            *)

\* The call made by this step, when the step made one.
MadeCall(fn) ==
    /\ Len(calls') = Len(calls) + 1
    /\ calls'[Len(calls')].fn = fn
NewCall == calls'[Len(calls')]

\* The call returned a reference to an object of heap h.
ReturnedObject(c, h) ==
    /\ c.completion.type = "normal"
    /\ IsRef(c.completion.value)
    /\ c.completion.value.n \in DOMAIN h
Returned(c, h) == h[c.completion.value.n]

IsSuccess(o) == HasProp(o, "success") /\ o.props.success = True
IsFailure(o) == HasProp(o, "success") /\ o.props.success = False
CarriesValueOnly(o) == HasProp(o, "value") /\ ~HasProp(o, "error")
CarriesErrorOnly(o) == HasProp(o, "error") /\ ~HasProp(o, "value")

\* v refers to an error object of heap h whose message is m.
ErrorWithMessage(h, v, m) ==
    /\ IsRef(v)
    /\ v.n \in DOMAIN h
    /\ HasProp(h[v.n], "message")
    /\ h[v.n].props.message = Str(m)

LibraryCalls == {i \in DOMAIN calls : calls[i].fn \in {"ok", "err"}}

---------------------------------------------------------------------------
(* Properties of the library, checked under Spec.                           *)

\* C1: whenever ok(v) is called, it returns normally a reference to a Result
\* whose `success` is true and whose `value` is v itself (the same primitive,
\* or the same reference, not a reference to a copy), and an object v refers
\* to is after the call what it was before it.
OkWrapsItsArgument ==
    [][MadeCall("ok") =>
        LET v == NewCall.args[1]
        IN  /\ ReturnedObject(NewCall, heap')
            /\ IsSuccess(Returned(NewCall, heap'))
            /\ HasProp(Returned(NewCall, heap'), "value")
            /\ Returned(NewCall, heap').props.value = v
            /\ IsRef(v) => heap'[v.n] = heap[v.n]]_vars

\* C1 happens: ok was called on a reference to an object ({ name: "Test" })
\* and on a primitive.
OkCalledOnObjectAndPrimitive ==
    /\ \E i \in DOMAIN calls :
          /\ calls[i].fn = "ok"
          /\ IsRef(calls[i].args[1])
          /\ heap[calls[i].args[1].n] = Obj("Object", [name |-> Str("Test")])
          /\ Returned(calls[i], heap).props.value = calls[i].args[1]
    /\ \E i \in DOMAIN calls : calls[i].fn = "ok" /\ calls[i].args[1] = Num(42)

\* C2: whenever err(e) is called, it returns normally a reference to a Result
\* whose `success` is false and whose `error` is e itself, and the object e
\* refers to keeps its prototype (Error or CustomError) and its properties
\* (message, name).
ErrWrapsItsArgument ==
    [][MadeCall("err") =>
        LET e == NewCall.args[1]
        IN  /\ ReturnedObject(NewCall, heap')
            /\ IsFailure(Returned(NewCall, heap'))
            /\ HasProp(Returned(NewCall, heap'), "error")
            /\ Returned(NewCall, heap').props.error = e
            /\ IsRef(e) =>
                  /\ heap'[e.n].proto = heap[e.n].proto
                  /\ heap'[e.n].props = heap[e.n].props]_vars

\* C2 happens: err was called on a CustomError and on a plain Error, and the
\* payload read back is that CustomError, with its message.
ErrCalledOnCustomAndPlainError ==
    /\ \E i \in DOMAIN calls :
          /\ calls[i].fn = "err"
          /\ IsRef(calls[i].args[1])
          /\ LET got == Returned(calls[i], heap).props.error
             IN  /\ got = calls[i].args[1]
                 /\ heap[got.n].proto = "CustomError"
                 /\ heap[got.n].props.message = Str("Custom test error")
                 /\ heap[got.n].props.name = Str("CustomError")
    /\ \E i \in DOMAIN calls :
          /\ calls[i].fn = "err"
          /\ IsRef(calls[i].args[1])
          /\ heap[calls[i].args[1].n].proto = "Error"

\* C3: every Result that a call of ok or err returned is in exactly one
\* variant, and the discriminant agrees with the fields: success is true or
\* false; it is true exactly when there is a value field and no error field,
\* and false exactly when there is an error field and no value field.
ExactlyOneVariant ==
    \A i \in LibraryCalls :
        /\ ReturnedObject(calls[i], heap)
        /\ LET r == Returned(calls[i], heap)
           IN  /\ HasProp(r, "success")
               /\ r.props.success \in {True, False}
               /\ IsSuccess(r) <=> CarriesValueOnly(r)
               /\ IsFailure(r) <=> CarriesErrorOnly(r)
               /\ IsSuccess(r) # IsFailure(r)

\* C3 happens: both variants exist side by side.
BothVariantsBuilt ==
    /\ \E i \in LibraryCalls : IsSuccess(Returned(calls[i], heap))
    /\ \E i \in LibraryCalls : IsFailure(Returned(calls[i], heap))

\* C4: no step changes an object that exists: every address keeps its
\* prototype and its properties, and a call of ok or err adds exactly one
\* object, the new Result.
ResultsAreImmutable ==
    [][/\ Len(heap') >= Len(heap)
       /\ \A a \in DOMAIN heap : heap'[a] = heap[a]
       /\ (MadeCall("ok") \/ MadeCall("err")) => Len(heap') = Len(heap) + 1]_vars

\* C4 happens: a Result was built, and later calls of ok and err were made
\* while it existed, one of them on that Result.
CallsMadeAfterAResultExists ==
    \E i, j, k \in LibraryCalls :
        /\ i < j
        /\ j < k
        /\ calls[j].args[1] = calls[i].completion.value
        /\ calls[j].fn = "ok"
        /\ calls[k].fn = "err"

\* C5: every call of ok or err, whatever its argument, completes normally
\* (it throws nothing) and returns a Result.
ConstructorsAreTotal ==
    \A i \in LibraryCalls :
        /\ calls[i].completion.type = "normal"
        /\ ReturnedObject(calls[i], heap)
        /\ HasProp(Returned(calls[i], heap), "success")

\* C5 happens: ok was called on null and on undefined, err on a value that is
\* no Error.
ConstructorsCalledOnOddArguments ==
    /\ \E i \in LibraryCalls : calls[i].fn = "ok" /\ calls[i].args[1] = Null
    /\ \E i \in LibraryCalls : calls[i].fn = "ok" /\ calls[i].args[1] = Undefined
    /\ \E i \in LibraryCalls : calls[i].fn = "err" /\ calls[i].args[1] = Num(42)

\* C10: the variant follows the constructor, never the payload: a Result from
\* ok is a success holding its argument as it is, also when the argument is
\* an error object or a Result; a Result from err is a failure holding its
\* argument as it is, also when that is a number, null or a Result; and no
\* Result from ok is a Result from err, by identity or by content.
VariantFollowsConstructor ==
    /\ \A i \in LibraryCalls :
          /\ ReturnedObject(calls[i], heap)
          /\ calls[i].fn = "ok" =>
                /\ IsSuccess(Returned(calls[i], heap))
                /\ GetProp(Returned(calls[i], heap), "value") = calls[i].args[1]
          /\ calls[i].fn = "err" =>
                /\ IsFailure(Returned(calls[i], heap))
                /\ GetProp(Returned(calls[i], heap), "error") = calls[i].args[1]
    /\ \A i, j \in LibraryCalls :
          (calls[i].fn = "ok" /\ calls[j].fn = "err") =>
             /\ calls[i].completion.value # calls[j].completion.value
             /\ Returned(calls[i], heap) # Returned(calls[j], heap)

\* C10 happens: ok was called on a failure Result and err on a success Result
\* (each nested, not flattened), with equal arguments passed to ok and to err.
NestedResultsBuilt ==
    \E i, j, k \in LibraryCalls :
        /\ calls[i].fn = "err"
        /\ calls[j].fn = "ok"
        /\ calls[j].args[1] = calls[i].completion.value
        /\ IsFailure(heap[Returned(calls[j], heap).props.value.n])
        /\ calls[k].fn = "err"
        /\ calls[k].args[1] = calls[j].completion.value
        /\ IsSuccess(heap[Returned(calls[k], heap).props.error.n])

---------------------------------------------------------------------------
(* Properties of the test file's functions, checked under SpecUsage.        *)

\* A number that is zero, of either sign.
IsZero(v) == v.t = "number" /\ v.n = 0 /\ v.d = 1
\* A number that is at most zero.
IsAtMostZero(v) ==
    v.t = "number" /\ ((v.d > 0 /\ v.n <= 0) \/ (v.d = 0 /\ v.n < 0))

\* C7: divide(a, b) returns a failure whose error has the message
\* "Division by zero" exactly when b is zero, and a success whose value is
\* the quotient a/b otherwise; divide(10, 2) is a success with value 5.
DivideContract ==
    \A i \in DOMAIN calls :
        calls[i].fn = "divide" =>
            LET a == calls[i].args[1]
                b == calls[i].args[2]
            IN  /\ ReturnedObject(calls[i], heap)
                /\ IsFailure(Returned(calls[i], heap)) <=> IsZero(b)
                /\ IsSuccess(Returned(calls[i], heap)) <=> ~IsZero(b)
                /\ IsZero(b) =>
                      ErrorWithMessage(heap,
                          GetProp(Returned(calls[i], heap), "error"),
                          "Division by zero")
                /\ ~IsZero(b) =>
                      GetProp(Returned(calls[i], heap), "value") = Quotient(a, b)
                /\ (a = Num(10) /\ b = Num(2)) =>
                      GetProp(Returned(calls[i], heap), "value") = Num(5)
                /\ (a = Num(7) /\ b = Num(-2)) =>
                      GetProp(Returned(calls[i], heap), "value")
                          = Val("number", -7, 2, "")

\* C7 happens: divide(10, 0) failed and divide(10, 2) succeeded with 5.
DivideCalledBothWays ==
    /\ \E i \in DOMAIN calls :
          /\ calls[i].fn = "divide"
          /\ calls[i].args = <<Num(10), Num(0)>>
          /\ IsFailure(Returned(calls[i], heap))
    /\ \E i \in DOMAIN calls :
          /\ calls[i].fn = "divide"
          /\ calls[i].args = <<Num(10), Num(2)>>
          /\ Returned(calls[i], heap).props.value = Num(5)

\* C8: complexOperation(input) fails exactly when divide(10, input) fails.
\* Its failure carries a new error object, with the message
\* "Complex operation failed", whose cause is the very error object of the
\* failure divide returned (message "Division by zero"), and which is not
\* that object.  When divide succeeds it returns a success whose value is
\* twice the quotient; complexOperation(2) is a success with value 10.
ComplexOperationContract ==
    [][MadeCall("complexOperation") =>
        LET input == NewCall.args[1]
            inner == divide(heap, Num(10), input)
            innerResult == inner.heap[inner.completion.value.n]
        IN  /\ ReturnedObject(NewCall, heap')
            /\ IsFailure(Returned(NewCall, heap')) <=> IsFailure(innerResult)
            /\ IsSuccess(Returned(NewCall, heap')) <=> IsSuccess(innerResult)
            /\ IsFailure(innerResult) <=> IsZero(input)
            /\ IsFailure(innerResult) =>
                  LET e == GetProp(Returned(NewCall, heap'), "error")
                      cause == innerResult.props.error
                  IN  /\ ErrorWithMessage(heap', e, "Complex operation failed")
                      /\ HasProp(heap'[e.n], "cause")
                      /\ heap'[e.n].props.cause = cause
                      /\ ErrorWithMessage(heap', cause, "Division by zero")
                      /\ e # cause
                      /\ heap'[e.n] # heap'[cause.n]
            /\ IsSuccess(innerResult) =>
                  GetProp(Returned(NewCall, heap'), "value")
                      = Product(innerResult.props.value, Num(2))
            /\ input = Num(2) =>
                  GetProp(Returned(NewCall, heap'), "value") = Num(10)
            /\ input = Num(4) =>
                  GetProp(Returned(NewCall, heap'), "value") = Num(5)]_vars

\* C8 happens: complexOperation(0) returned a failure with a chained cause,
\* and complexOperation(2) a success with value 10.
ComplexOperationCalledBothWays ==
    /\ \E i \in DOMAIN calls :
          /\ calls[i].fn = "complexOperation"
          /\ calls[i].args = <<Num(0)>>
          /\ IsFailure(Returned(calls[i], heap))
          /\ HasProp(heap[Returned(calls[i], heap).props.error.n], "cause")
    /\ \E i \in DOMAIN calls :
          /\ calls[i].fn = "complexOperation"
          /\ calls[i].args = <<Num(2)>>
          /\ Returned(calls[i], heap).props.value = Num(10)

\* C9: every call of fetchUserData returns a promise that is already
\* fulfilled, never rejected, with a Result: a failure with the message
\* "Invalid user ID" when userId <= 0, a success with value "User Data" when
\* userId is 1, a failure with the message "User not found" otherwise; and
\* every await that resumed yielded that Result as a value and threw nothing.
FetchUserDataContract ==
    /\ \A i \in DOMAIN calls :
          calls[i].fn = "fetchUserData" =>
              LET userId == calls[i].args[1]
                  promise == Returned(calls[i], heap)
                  result == GetProp(promise, "result")
              IN  /\ ReturnedObject(calls[i], heap)
                  /\ promise.proto = "Promise"
                  /\ GetProp(promise, "state") = Str("fulfilled")
                  /\ IsRef(result)
                  /\ IF IsAtMostZero(userId)
                     THEN /\ IsFailure(heap[result.n])
                          /\ ErrorWithMessage(heap, GetProp(heap[result.n], "error"),
                                              "Invalid user ID")
                     ELSE IF userId = Num(1)
                     THEN /\ IsSuccess(heap[result.n])
                          /\ GetProp(heap[result.n], "value") = Str("User Data")
                     ELSE /\ IsFailure(heap[result.n])
                          /\ ErrorWithMessage(heap, GetProp(heap[result.n], "error"),
                                              "User not found")
    /\ \A j \in DOMAIN awaited :
          /\ awaited[j].completion.type = "normal"
          /\ awaited[j].completion.value = GetProp(heap[awaited[j].promise.n], "result")

\* C9 happens: awaits of fetchUserData(0) and fetchUserData(1) have resumed,
\* the first with the failure "Invalid user ID", the second with "User Data".
FetchUserDataAwaitedBothWays ==
    \E i, j \in DOMAIN awaited :
        /\ awaited[i].completion.type = "normal"
        /\ IsFailure(heap[awaited[i].completion.value.n])
        /\ ErrorWithMessage(heap,
              heap[awaited[i].completion.value.n].props.error, "Invalid user ID")
        /\ awaited[j].completion.type = "normal"
        /\ IsSuccess(heap[awaited[j].completion.value.n])
        /\ heap[awaited[j].completion.value.n].props.value = Str("User Data")

=============================================================================
